---- MODULE Spec2Model ----
(***************************************************************************)
(* The queue of queue.c: a sentinel list_head closing a circular doubly    *)
(* linked ring of element_t records, each pointing to a heap buffer that   *)
(* holds its string.  Memory is modelled at the level of the link fields:  *)
(* next and prev are the fields of every list_head, value is the pointer   *)
(* field of every element_t, mem is the content of every string buffer.    *)
(* Every API function is one action; its loops are recursive operators     *)
(* that perform the C statements in their order on a memory record.        *)
(***************************************************************************)
EXTENDS Integers, Sequences, FiniteSets, TLC

\* ------------------------------------------------------------- bounds
\* Number of element blocks the allocator of the long-running driver owns.
HeapCap == 3
\* Longest ring the algorithm driver starts from.
MaxLen == 6
\* Number of calls the algorithm driver makes on one ring.
MaxCalls == 2
\* Largest bufsize a caller passes to q_remove_head / q_remove_tail.
MaxBuf == 4

\* ---------------------------------------------------------- addresses
\* The null pointer.
NULL == -1
\* The address of the queue's sentinel list_head (the block q_new allocates).
H == 0
\* The const size_t value (size_t)0 - 1, scaled to 32-bit integers.
SIZE_MAX == 2147483647

Max(a, b) == IF a >= b THEN a ELSE b
Min(a, b) == IF a <= b THEN a ELSE b

\* Addresses of the element_t blocks (the list_head inside is at the same id).
Elem == 1 .. Max(HeapCap, MaxLen)
\* Addresses of the string buffers.
VBuf == 1 .. Max(HeapCap, MaxLen)
Node == {H} \cup Elem
\* Bytes a string is made of; 0 is the terminator.
Byte == 0 .. 2
\* The strings callers insert: "a" and "aa" as NUL-terminated byte arrays.
CStrings == {<<1, 0>>, <<1, 1, 0>>}
\* The strings the algorithm driver fills its rings with: "a", "aa", "b".
AlgStrings == {<<1, 0>>, <<1, 1, 0>>, <<2, 0>>}
\* The address of a local pointer variable (the target of a struct list_head **).
LOCAL_VAR == 0 - 2
\* The address of the caller's output buffer.
SP == 0 - 3
\* Content of a block that is not allocated.
FREED == <<>>
\* fuel value of a driver that never stops calling.
Unlimited == 0 - 1

VARIABLES
    queue,      \* the caller's handle: H, or NULL when it has no queue
    next,       \* list_head.next of every node
    prev,       \* list_head.prev of every node
    value,      \* element_t.value of every element: a buffer address
    mem,        \* content of every string buffer
    live,       \* allocated list_head / element_t blocks
    vlive,      \* allocated string buffers
    held,       \* the element a remove handed to the caller, until it is released
    op,         \* the API function called last
    arg,        \* the arguments of that call
    ret,        \* what it returned (1/0 for bool, an address, a count)
    buf,        \* the caller's output buffer sp after the last remove
    writes,     \* link fields the last call wrote
    pre,        \* the memory as it was when the last call started
    twice,      \* the call before the last was the same function
    fuel,       \* calls the driver has left (Unlimited: no limit)
    crashed,    \* the process died in the last call
    frees,      \* the blocks the last call passed to free, in order
    uaf,        \* the last call used a block that was not allocated
    pc,         \* where the call that is running stands: "idle" when none is
    loc         \* the local variables of the call that is running

vars == <<queue, next, prev, value, mem, live, vlive, held, op, arg, ret, buf, writes, pre, twice, fuel, crashed, frees, uaf, pc, loc>>

\* The memory as one record, the form the operators below work on; w counts
\* the writes to link fields, fr lists the blocks passed to free ("v": a string
\* buffer, "n": a list_head or element_t, with whether it was still linked),
\* bad tells that a block that is not allocated was read, written or freed.
Memory == [next |-> next, prev |-> prev, value |-> value, mem |-> mem, live |-> live, vlive |-> vlive, w |-> 0, fr |-> <<>>, bad |-> FALSE]

\* ------------------------------------------------------------- libc
\* strlen: the index of the first terminator.
RECURSIVE strlen_from(_, _)
strlen_from(s, i) == IF s[i] = 0 THEN i - 1 ELSE strlen_from(s, i + 1)

strlen(s) == strlen_from(s, 1)

\* strcmp: the difference of the first pair of bytes that differ, 0 when both
\* strings end together.
RECURSIVE strcmp_from(_, _, _)
strcmp_from(s, t, i) ==
    IF s[i] # t[i] THEN s[i] - t[i]
    ELSE IF s[i] = 0 THEN 0
    ELSE strcmp_from(s, t, i + 1)

strcmp(s, t) == strcmp_from(s, t, 1)

\* malloc on a pool of blocks: the lowest free address, NULL when the request
\* fails (fail) or no block is left.
malloc(pool, used, fail) ==
    IF fail \/ pool \ used = {} THEN NULL
    ELSE CHOOSE b \in pool \ used : \A c \in pool \ used : b <= c

\* free of a string buffer: its content is gone.  free of a buffer that is
\* not allocated is undefined.
free_value(M, b) ==
    IF b \notin M.vlive THEN [M EXCEPT !.bad = TRUE, !.fr = Append(@, <<"v", b, FALSE>>)]
    ELSE [M EXCEPT !.vlive = @ \ {b}, !.mem[b] = FREED, !.fr = Append(@, <<"v", b, FALSE>>)]

\* The node n is linked in a list: the node before it or the node after it
\* points to it.
Linked(M, n) ==
    \/ M.prev[n] \in Node /\ M.next[M.prev[n]] = n
    \/ M.next[n] \in Node /\ M.prev[M.next[n]] = n

\* free of a list_head / element_t block: its fields are gone.
free_node(M, n) ==
    IF n \notin M.live THEN [M EXCEPT !.bad = TRUE, !.fr = Append(@, <<"n", n, FALSE>>)]
    ELSE IF n = H
    THEN [M EXCEPT !.live = @ \ {n}, !.next[n] = NULL, !.prev[n] = NULL, !.fr = Append(@, <<"n", n, Linked(M, n)>>)]
    ELSE [M EXCEPT !.live = @ \ {n}, !.next[n] = NULL, !.prev[n] = NULL, !.value[n] = NULL, !.fr = Append(@, <<"n", n, Linked(M, n)>>)]

\* ------------------------------------------------------------- list.h
\* A read or write of a field of the block n: undefined when n is not
\* allocated.
Touch(M, n) == CHOOSE R \in {IF n \in X.live THEN X ELSE [X EXCEPT !.bad = TRUE] : X \in {M}} : TRUE

\* x->next = y and x->prev = y, each one write of a link field.
SetNext(M, x, y) == [Touch(M, x) EXCEPT !.next[x] = y, !.w = @ + 1]

SetPrev(M, x, y) == [Touch(M, x) EXCEPT !.prev[x] = y, !.w = @ + 1]

\* A read of the string of the element e: undefined when e or its buffer is
\* not allocated.
TouchStr(M, e) == CHOOSE R \in {IF e \in X.live /\ X.value[e] \in X.vlive THEN X ELSE [X EXCEPT !.bad = TRUE] : X \in {M}} : TRUE

INIT_LIST_HEAD(M, head) == SetPrev(SetNext(M, head, head), head, head)

\* list_add: node becomes the first node after head.
list_add(M, node, head) ==
    LET nx == M.next[head]
        M1 == SetPrev(M, nx, node)
        M2 == SetNext(M1, node, nx)
        M3 == SetPrev(M2, node, head)
    IN  SetNext(M3, head, node)

\* list_add_tail: node becomes the last node before head.
list_add_tail(M, node, head) ==
    LET pv == M.prev[head]
        M1 == SetNext(M, pv, node)
        M2 == SetNext(M1, node, head)
        M3 == SetPrev(M2, node, pv)
    IN  SetPrev(M3, head, node)

\* list_del: the neighbours of node are linked to each other; node keeps its
\* own fields (the build does not define LIST_POISONING).
list_del(M, node) ==
    LET nx == M.next[node]
        pv == M.prev[node]
    IN  SetNext(SetPrev(Touch(M, node), nx, pv), pv, nx)

list_empty(M, head) == M.next[head] = head

list_is_singular(M, head) == ~list_empty(M, head) /\ M.prev[head] = M.next[head]

\* list_entry(node, element_t, list)->value as a string.
StrOf(M, node) == M.mem[M.value[node]]

\* ------------------------------------------------------- reading a ring
\* The nodes met from node n along the field f until the sentinel, at most k
\* of them (a walk that does not come back stops after k nodes).
RECURSIVE Walk(_, _, _)
Walk(f, n, k) ==
    IF n = H \/ n = NULL \/ k = 0 THEN <<>> ELSE <<n>> \o Walk(f, f[n], k - 1)

\* The elements of the queue in order, read along next.
ListSeq(M) == Walk(M.next, M.next[H], Cardinality(Node))

\* The same read backwards along prev.
ListSeqBack(M) == Walk(M.prev, M.prev[H], Cardinality(Node))

Range(s) == {s[i] : i \in 1 .. Len(s)}

Reverse(s) == [i \in 1 .. Len(s) |-> s[Len(s) + 1 - i]]

\* The strings of a sequence of elements.
Strings(M, s) == [i \in 1 .. Len(s) |-> StrOf(M, s[i])]

\* memcpy(dst, src, n) on byte arrays that both hold at least n bytes.
memcpy(dst, src, n) == [i \in 1 .. Len(dst) |-> IF i <= n THEN src[i] ELSE dst[i]]

\* ------------------------------------------------------------- queue.c
\* q_release_element: free(e->value); free(e).
q_release_element(M, e) == free_node(free_value(Touch(M, e), M.value[e]), e)

\* element_alloc that returns NULL without free(value) when the record
\* cannot be had.
element_alloc_leaks(M, value_size, failValue, failElm) ==
    LET v == malloc(1 .. HeapCap, M.vlive, failValue)
        M1 == [M EXCEPT !.vlive = @ \cup {v}, !.mem[v] = [i \in 1 .. value_size |-> 0]]
        e == malloc(1 .. HeapCap, M.live, failElm)
    IN  IF v = NULL THEN [M |-> M, elm |-> NULL]
        ELSE IF e = NULL THEN [M |-> M1, elm |-> NULL]
        ELSE [M |-> [M1 EXCEPT !.live = @ \cup {e}, !.value[e] = v], elm |-> e]

\* element_alloc: the buffer first, then the record; a record that cannot be
\* had gives the buffer back.  Returns the memory and the element (or NULL).
\* The fresh buffer's bytes are indeterminate; no caller reads them before
\* writing them, and they stand as zeros here.
element_alloc(M, value_size, failValue, failElm) ==
    LET v == malloc(1 .. HeapCap, M.vlive, failValue)
        M1 == [M EXCEPT !.vlive = @ \cup {v}, !.mem[v] = [i \in 1 .. value_size |-> 0]]
        e == malloc(1 .. HeapCap, M.live, failElm)
    IN  IF v = NULL THEN [M |-> M, elm |-> NULL]
        ELSE IF e = NULL THEN [M |-> free_value(M1, v), elm |-> NULL]
        ELSE [M |-> [M1 EXCEPT !.live = @ \cup {e}, !.value[e] = v], elm |-> e]

\* The part q_insert_head and q_insert_tail share: allocate, copy the string.
insert_copy(M, s, failValue, failElm) ==
    LET s_length == strlen(s)
        r == element_alloc(M, s_length + 1, failValue, failElm)
        v == r.M.value[r.elm]
        copied == memcpy(r.M.mem[v], s, s_length)
    IN  IF r.elm = NULL THEN r
        ELSE [M |-> [r.M EXCEPT !.mem[v] = [copied EXCEPT ![s_length + 1] = 0]], elm |-> r.elm]

q_insert_head_fn(M, head, s, failValue, failElm) ==
    IF head = NULL THEN [M |-> M, ret |-> 0]
    ELSE LET r == insert_copy(M, s, failValue, failElm)
         IN  IF r.elm = NULL THEN [M |-> r.M, ret |-> 0]
             ELSE [M |-> list_add(r.M, r.elm, head), ret |-> 1]

\* q_insert_tail that links with list_add for list_add_tail.
q_insert_tail_fn_at_head(M, head, s, failValue, failElm) ==
    IF head = NULL THEN [M |-> M, ret |-> 0]
    ELSE LET r == insert_copy(M, s, failValue, failElm)
         IN  IF r.elm = NULL THEN [M |-> r.M, ret |-> 0]
             ELSE [M |-> list_add(r.M, r.elm, head), ret |-> 1]

q_insert_tail_fn(M, head, s, failValue, failElm) ==
    IF head = NULL THEN [M |-> M, ret |-> 0]
    ELSE LET r == insert_copy(M, s, failValue, failElm)
         IN  IF r.elm = NULL THEN [M |-> r.M, ret |-> 0]
             ELSE [M |-> list_add_tail(r.M, r.elm, head), ret |-> 1]

\* bufsize - 1 in size_t.
copy_length(bufsize) == IF bufsize = 0 THEN SIZE_MAX ELSE bufsize - 1

\* memcpy(sp, elm->value, bufsize - 1); sp[bufsize - 1] = '\0' on a buffer of
\* bufsize bytes.  A byte read past the end of the stored string's buffer is
\* whatever lies there: beyond[i] for the i-th byte of the source.
copy_out(sp, src, bufsize, beyond) ==
    LET n == copy_length(bufsize)
        got == [i \in 1 .. Len(sp) |-> IF i > n THEN sp[i] ELSE IF i <= Len(src) THEN src[i] ELSE beyond[i]]
    IN  [got EXCEPT ![n + 1] = 0]

\* The copy reads past the end of the stored string's buffer.
copy_overreads(src, bufsize) == copy_length(bufsize) > Len(src)

\* The copy writes past the end of the caller's buffer of bufsize bytes.
copy_overflows(bufsize) == copy_length(bufsize) >= bufsize

\* The caller's buffer before the call: bufsize bytes, none of them a
\* terminator; nothing when sp is NULL.
CallerBuf(sp, bufsize) == IF sp = NULL THEN <<>> ELSE [i \in 1 .. bufsize |-> 2]

\* q_remove_head that deletes: it releases the element it returns.
q_remove_head_fn_frees(M, head, sp, bufsize, beyond) ==
    IF head = NULL \/ list_empty(M, head) THEN [M |-> M, ret |-> NULL, buf |-> CallerBuf(sp, bufsize)]
    ELSE LET elm == M.next[head]
         IN  [M |-> q_release_element(list_del(M, elm), elm), ret |-> elm,
              buf |-> IF sp = NULL THEN <<>> ELSE copy_out(CallerBuf(sp, bufsize), StrOf(M, elm), bufsize, beyond)]

\* q_remove_head: sp is NULL or the address of the caller's buffer of bufsize
\* bytes; buf is that buffer after the call.
q_remove_head_fn(M, head, sp, bufsize, beyond) ==
    IF head = NULL \/ list_empty(M, head) THEN [M |-> M, ret |-> NULL, buf |-> CallerBuf(sp, bufsize)]
    ELSE LET elm == M.next[head]
         IN  [M |-> list_del(M, elm), ret |-> elm,
              buf |-> IF sp = NULL THEN <<>> ELSE copy_out(CallerBuf(sp, bufsize), StrOf(M, elm), bufsize, beyond)]

q_remove_tail_fn(M, head, sp, bufsize, beyond) ==
    IF head = NULL \/ list_empty(M, head) THEN [M |-> M, ret |-> NULL, buf |-> CallerBuf(sp, bufsize)]
    ELSE LET elm == M.prev[head]
         IN  [M |-> list_del(M, elm), ret |-> elm,
              buf |-> IF sp = NULL THEN <<>> ELSE copy_out(CallerBuf(sp, bufsize), StrOf(M, elm), bufsize, beyond)]

\* q_size: list_for_each counts the nodes until the walk is back at head.
RECURSIVE size_loop(_, _, _, _)
size_loop(M, head, li, len) == IF li = head THEN len ELSE size_loop(M, head, M.next[li], len + 1)

q_size_fn(M, head) == IF head = NULL THEN 0 ELSE size_loop(M, head, M.next[head], 0)

\* q_free: list_for_each_entry_safe releases every element, then the head.
RECURSIVE free_loop(_, _, _, _)
free_loop(M, head, elm, safe) ==
    IF elm = head THEN M
    ELSE LET M1 == Touch(q_release_element(M, elm), safe)
         IN  free_loop(M1, head, safe, M1.next[safe])

\* q_free without free(l): the elements go, the list head stays allocated.
q_free_fn_keeps_head(M, l) ==
    IF l = NULL THEN M
    ELSE free_loop(M, l, M.next[l], M.next[M.next[l]])

q_free_fn(M, l) ==
    IF l = NULL THEN M
    ELSE free_node(free_loop(M, l, M.next[l], M.next[M.next[l]]), l)

\* q_delete_mid's walk stopping one step early on a ring of even length.
RECURSIVE mid_loop_early(_, _, _, _)
mid_loop_early(M, head, fast, slow) ==
    IF M.next[fast] # head /\ M.next[M.next[fast]] # head
    THEN mid_loop_early(M, head, M.next[M.next[fast]], M.next[slow])
    ELSE slow

\* q_delete_mid: the two walks; slow stops on the middle node.
RECURSIVE mid_loop(_, _, _, _)
mid_loop(M, head, fast, slow) ==
    IF fast # head /\ M.next[fast] # head
    THEN mid_loop(M, head, M.next[M.next[fast]], M.next[slow])
    ELSE slow

\* q_delete_mid with its last two statements in the other order: the element
\* is released while it is linked, and list_del then reads the released block.
q_delete_mid_fn_frees_first(M, head) ==
    IF head = NULL \/ list_empty(M, head) THEN [M |-> M, ret |-> 0]
    ELSE LET slow == mid_loop(M, head, M.next[head], M.next[head])
         IN  [M |-> Touch(q_release_element(M, slow), slow), ret |-> 1]

q_delete_mid_fn(M, head) ==
    IF head = NULL \/ list_empty(M, head) THEN [M |-> M, ret |-> 0]
    ELSE LET slow == mid_loop(M, head, M.next[head], M.next[head])
         IN  [M |-> q_release_element(list_del(M, slow), slow), ret |-> 1]

\* The comparison of q_delete_dup: elm has a successor in the ring and the
\* two strings are equal.
dup_cmp(M, head, elm, next_elm) ==
    M.next[elm] # head /\ strcmp(StrOf(M, elm), StrOf(M, next_elm)) = 0

\* q_delete_dup's test without the carry flag: the last node of a run stays.
dup_hit_no_carry(cmp_result, found_dup) == cmp_result

\* The test that deletes elm: it equals its successor, or it ended a run of
\* equal strings.
dup_hit(cmp_result, found_dup) == cmp_result \/ found_dup

\* The reads of the comparison: elm's next, and both strings when elm has a
\* successor in the ring.
dup_reads(M, head, elm, next_elm) ==
    IF M.next[elm] # head THEN TouchStr(TouchStr(Touch(M, elm), elm), next_elm) ELSE Touch(M, elm)

\* q_delete_dup with a found_dup that is set by a deletion and never cleared:
\* everything behind the first run goes.
RECURSIVE dup_loop_sticky(_, _, _, _, _)
dup_loop_sticky(M, head, elm, next_elm, found_dup) ==
    IF elm = head THEN M
    ELSE LET cmp_result == dup_cmp(M, head, elm, next_elm)
             hit == dup_hit(cmp_result, found_dup)
             M0 == dup_reads(M, head, elm, next_elm)
             M1 == Touch(IF hit THEN q_release_element(list_del(M0, elm), elm) ELSE M0, next_elm)
         IN  dup_loop_sticky(M1, head, next_elm, M1.next[next_elm], hit)

\* q_delete_dup: list_for_each_entry_safe with the carry flag found_dup; the
\* step of the loop reads next_elm's next.
RECURSIVE dup_loop(_, _, _, _, _)
dup_loop(M, head, elm, next_elm, found_dup) ==
    IF elm = head THEN M
    ELSE LET cmp_result == dup_cmp(M, head, elm, next_elm)
             hit == dup_hit(cmp_result, found_dup)
             M0 == dup_reads(M, head, elm, next_elm)
             M1 == Touch(IF hit THEN q_release_element(list_del(M0, elm), elm) ELSE M0, next_elm)
         IN  dup_loop(M1, head, next_elm, M1.next[next_elm], IF hit THEN cmp_result ELSE found_dup)

\* q_delete_dup that reports an empty or single-element queue as a failure.
q_delete_dup_fn_strict(M, head) ==
    IF head = NULL THEN [M |-> M, ret |-> 0]
    ELSE IF list_empty(M, head) \/ list_is_singular(M, head) THEN [M |-> M, ret |-> 0]
    ELSE [M |-> dup_loop(M, head, M.next[head], M.next[M.next[head]], FALSE), ret |-> 1]

q_delete_dup_fn(M, head) ==
    IF head = NULL THEN [M |-> M, ret |-> 0]
    ELSE IF list_empty(M, head) \/ list_is_singular(M, head) THEN [M |-> M, ret |-> 1]
    ELSE [M |-> dup_loop(M, head, M.next[head], M.next[M.next[head]], FALSE), ret |-> 1]

\* One pass of q_swap's do-while body on the pair a, b: the six writes.
swap_pair(M, a, b) ==
    LET M1 == SetNext(M, M.prev[a], b)
        M2 == SetPrev(M1, b, M1.prev[a])
        M3 == SetPrev(M2, a, b)
        M4 == SetNext(M3, a, M3.next[b])
        M5 == SetPrev(M4, M4.next[b], a)
    IN  SetNext(M5, b, a)

\* q_swap with a test that never holds: only the first pair is exchanged.
swap_loop_once(M, head, a, b) == swap_pair(M, a, b)

\* q_swap's do-while: swap, step to the next pair, test.
RECURSIVE swap_loop(_, _, _, _)
swap_loop(M, head, a, b) ==
    LET M1 == swap_pair(M, a, b)
        a1 == M1.next[a]
        b1 == M1.next[a1]
    IN  IF a1 # head /\ b1 # head THEN swap_loop(M1, head, a1, b1) ELSE M1

q_swap_fn(M, head) ==
    IF head = NULL \/ list_empty(M, head) \/ list_is_singular(M, head) THEN M
    ELSE swap_loop(M, head, M.next[head], M.next[M.next[head]])

\* q_reverse's exchange of two nodes that are not adjacent with one statement
\* written twice.
reverse_apart_again(M, a, b) ==
    LET M1 == SetNext(M, M.prev[a], b)
        M2 == SetNext(M1, M1.prev[b], a)
        tmp == M2.prev[a]
        M3 == SetPrev(M2, a, M2.prev[b])
        M4 == SetPrev(M3, b, tmp)
        M5 == SetPrev(M4, M4.next[a], b)
        M6 == SetPrev(M5, M5.next[b], a)
        tmp2 == M6.next[a]
        M7 == SetNext(M6, a, M6.next[b])
        M8 == SetNext(M7, b, tmp2)
    IN  SetNext(M8, b, tmp2)

\* q_reverse's exchange of a and b when a is not beside b: ten statements,
\* eight of them writes.
reverse_apart(M, a, b) ==
    LET M1 == SetNext(M, M.prev[a], b)
        M2 == SetNext(M1, M1.prev[b], a)
        tmp == M2.prev[a]
        M3 == SetPrev(M2, a, M2.prev[b])
        M4 == SetPrev(M3, b, tmp)
        M5 == SetPrev(M4, M4.next[a], b)
        M6 == SetPrev(M5, M5.next[b], a)
        tmp2 == M6.next[a]
        M7 == SetNext(M6, a, M6.next[b])
    IN  SetNext(M7, b, tmp2)

\* q_reverse's exchange of neighbours without b->next->prev = a.
reverse_beside_forgets(M, a, b) ==
    LET M1 == SetNext(M, M.prev[a], b)
        M2 == SetPrev(M1, b, M1.prev[a])
        M4 == SetNext(M2, a, M2.next[b])
        M5 == SetPrev(M4, a, b)
    IN  SetNext(M5, b, a)

\* q_reverse's exchange of a and b when a->next is b: six writes.
reverse_beside(M, a, b) ==
    LET M1 == SetNext(M, M.prev[a], b)
        M2 == SetPrev(M1, b, M1.prev[a])
        M3 == SetPrev(M2, M2.next[b], a)
        M4 == SetNext(M3, a, M3.next[b])
        M5 == SetPrev(M4, a, b)
    IN  SetNext(M5, b, a)

\* q_reverse's test stopping as soon as a and b are neighbours, before they
\* are exchanged.
reverse_goes_on_short(M, a, b) == a # b /\ M.prev[a] # b /\ M.next[a] # b

\* The exit test of q_reverse's do-while is the negation of this.
reverse_goes_on(M, a, b) == a # b /\ M.prev[a] # b

\* q_reverse's do-while: exchange the outer pair, move both inwards, test.
RECURSIVE reverse_loop(_, _, _)
reverse_loop(M, a, b) ==
    LET M1 == IF M.next[a] # b THEN reverse_apart(M, a, b) ELSE reverse_beside(M, a, b)
        a1 == M1.next[b]
        b1 == M1.prev[a]
    IN  IF reverse_goes_on(M1, a1, b1) THEN reverse_loop(M1, a1, b1) ELSE M1

q_reverse_fn(M, head) ==
    IF head = NULL \/ list_empty(M, head) \/ list_is_singular(M, head) THEN M
    ELSE reverse_loop(M, M.next[head], M.prev[head])

\* merge's test with < for <=: on a tie the node of run b goes first.
merge_takes_a_strict(sa, sb) == strcmp(sa, sb) < 0

\* merge's test: the node of run a goes first.
merge_takes_a(sa, sb) == strcmp(sa, sb) <= 0

\* *tail = x, where tail is the address of merge's local head or of the next
\* field of the node tail.
merge_store(M, head, tail, x) ==
    IF tail = LOCAL_VAR THEN [M |-> M, head |-> x]
    ELSE [M |-> SetNext(M, tail, x), head |-> head]

\* merge's for (;;): threads the two NULL-terminated runs along next.
RECURSIVE merge_loop(_, _, _, _, _)
merge_loop(M, a, b, head, tail) ==
    IF merge_takes_a(StrOf(M, a), StrOf(M, b))
    THEN LET S == merge_store(M, head, tail, a)
             a1 == S.M.next[a]
         IN  IF a1 = NULL THEN [M |-> SetNext(S.M, a, b), head |-> S.head]
             ELSE merge_loop(S.M, a1, b, S.head, a)
    ELSE LET S == merge_store(M, head, tail, b)
             b1 == S.M.next[b]
         IN  IF b1 = NULL THEN [M |-> SetNext(S.M, b, a), head |-> S.head]
             ELSE merge_loop(S.M, a, b1, S.head, b)

\* merge(a, b): the memory after it and the head of the merged run.
merge(M, a, b) == merge_loop(M, a, b, NULL, LOCAL_VAR)

\* merge_restore's test: the node of run a goes first.
restore_takes_a(sa, sb) == strcmp(sa, sb) <= 0

\* merge_restore's for (;;): threads along next and sets prev; leaves the
\* rest of the run that is not used up in b.
RECURSIVE restore_loop(_, _, _, _)
restore_loop(M, a, b, tail) ==
    IF restore_takes_a(StrOf(M, a), StrOf(M, b))
    THEN LET M1 == SetPrev(SetNext(M, tail, a), a, tail)
             a1 == M1.next[a]
         IN  IF a1 = NULL THEN [M |-> M1, tail |-> a, b |-> b]
             ELSE restore_loop(M1, a1, b, a)
    ELSE LET M1 == SetPrev(SetNext(M, tail, b), b, tail)
             b1 == M1.next[b]
         IN  IF b1 = NULL THEN [M |-> M1, tail |-> b, b |-> a]
             ELSE restore_loop(M1, a, b1, b)

\* merge_restore's last loop as an if: only the first remaining node is
\* given its prev, and the ring is closed behind it.
restore_rest_once(M, b, tail) == [M |-> SetPrev(M, b, tail), tail |-> b]

\* merge_restore's do-while: prev of the nodes that remain.
RECURSIVE restore_rest(_, _, _)
restore_rest(M, b, tail) ==
    LET M1 == SetPrev(M, b, tail)
        b1 == M1.next[b]
    IN  IF b1 # NULL THEN restore_rest(M1, b1, b) ELSE [M |-> M1, tail |-> b]

\* merge_restore that forgets head->prev = tail when it closes the ring.
merge_restore_open(M, head, a, b) ==
    LET L == restore_loop(M, a, b, head)
        M1 == SetNext(L.M, L.tail, L.b)
        R == restore_rest(M1, L.b, L.tail)
    IN  SetNext(R.M, R.tail, head)

merge_restore(M, head, a, b) ==
    LET L == restore_loop(M, a, b, head)
        M1 == SetNext(L.M, L.tail, L.b)
        R == restore_rest(M1, L.b, L.tail)
        M2 == SetNext(R.M, R.tail, head)
    IN  SetPrev(M2, head, R.tail)

\* *tail in q_sort, where tail is the address of the local pending or of the
\* prev field of the node tail.
sort_deref(M, pending, tail) == IF tail = LOCAL_VAR THEN pending ELSE M.prev[tail]

\* for (bits = count; bits & 1; bits >>= 1) tail = &(*tail)->prev;
RECURSIVE sort_find(_, _, _, _)
sort_find(M, pending, tail, bits) ==
    IF bits % 2 = 1 THEN sort_find(M, pending, sort_deref(M, pending, tail), bits \div 2)
    ELSE [tail |-> tail, bits |-> bits]

\* if (bits) { ... }: merges the two pending runs at tail.
sort_carry(M, pending, tail) ==
    LET newer == sort_deref(M, pending, tail)
        older == M.prev[newer]
        G == merge(M, older, newer)
        M1 == SetPrev(G.M, G.head, G.M.prev[older])
    IN  IF tail = LOCAL_VAR THEN [M |-> M1, pending |-> G.head]
        ELSE [M |-> SetPrev(M1, tail, G.head), pending |-> pending]

\* One pass of q_sort's do-while body: the state is the memory with the
\* locals list, pending and count.
sort_intake(S) ==
    LET F == sort_find(S.M, S.pending, LOCAL_VAR, S.count)
        C == IF F.bits # 0 THEN sort_carry(S.M, S.pending, F.tail) ELSE [M |-> S.M, pending |-> S.pending]
        M1 == SetPrev(C.M, S.list, C.pending)
        list1 == M1.next[S.list]
    IN  [M |-> SetNext(M1, S.list, NULL), list |-> list1, pending |-> S.list, count |-> S.count + 1]

RECURSIVE sort_intake_loop(_)
sort_intake_loop(S) ==
    LET S1 == sort_intake(S)
    IN  IF S1.list # NULL THEN sort_intake_loop(S1) ELSE S1

\* The for (;;) after the intake: merges the pending runs, newest first, until
\* two are left.
RECURSIVE sort_final_loop(_, _, _)
sort_final_loop(M, list, pending) ==
    LET nxt == M.prev[pending]
        G == merge(M, pending, list)
    IN  IF nxt = NULL THEN [M |-> M, list |-> list, pending |-> pending]
        ELSE sort_final_loop(G.M, G.head, nxt)

\* q_sort that breaks the ring open before it tests for a ring too short to
\* sort.
q_sort_fn_breaks_first(M, head) ==
    IF head = NULL THEN M
    ELSE IF M.next[head] = M.prev[head] THEN SetNext(M, M.prev[head], NULL)
    ELSE CHOOSE R \in {merge_restore(F.M, head, F.pending, F.list) :
                        F \in {sort_final_loop(S.M, S.pending, S.M.prev[S.pending]) :
                               S \in {sort_intake_loop([M |-> SetNext(M, M.prev[head], NULL), list |-> M.next[head], pending |-> NULL, count |-> 0])}}} : TRUE

\* q_sort: S is the state the intake loop ends in, F the one the loop over the
\* pending runs ends in, R the memory merge_restore leaves.
q_sort_fn(M, head) ==
    IF head = NULL THEN M
    ELSE IF M.next[head] = M.prev[head] THEN M
    ELSE CHOOSE R \in {merge_restore(F.M, head, F.pending, F.list) :
                        F \in {sort_final_loop(S.M, S.pending, S.M.prev[S.pending]) :
                               S \in {sort_intake_loop([M |-> SetNext(M, M.prev[head], NULL), list |-> M.next[head], pending |-> NULL, count |-> 0])}}} : TRUE

q_new_fn(M, fail) ==
    LET q == malloc({H}, M.live, fail)
    IN  IF q = NULL THEN [M |-> M, ret |-> NULL]
        ELSE [M |-> INIT_LIST_HEAD([M EXCEPT !.live = @ \cup {q}], q), ret |-> q]

\* ------------------------------------------------------------ the calls
\* What a call sees of the state when it starts.
Snapshot == [queue |-> queue, next |-> next, prev |-> prev, value |-> value, mem |-> mem, live |-> live, vlive |-> vlive, held |-> held]

\* The arguments of a call that takes the queue only.
NoArg == [none |-> TRUE]

\* A call of the function name with the arguments a starts: the process is
\* alive and the driver has a call left.
Enter(name, a) ==
    /\ ~crashed
    /\ fuel # 0
    /\ op' = name
    /\ arg' = a
    /\ twice' = (op = name)
    /\ fuel' = IF fuel > 0 THEN fuel - 1 ELSE fuel
    /\ pre' = Snapshot

\* The local variables of the functions that loop; NoLoc when no call runs.
\* back is where a merge that is running returns to.
NoLoc == [fast |-> NULL, slow |-> NULL, elm |-> NULL, safe |-> NULL, found |-> FALSE, a |-> NULL, b |-> NULL, head |-> NULL, tail |-> NULL, list |-> NULL, pending |-> NULL, count |-> 0, slot |-> NULL, older |-> NULL, back |-> "idle"]

\* The memory a call leaves.
Store(M) ==
    /\ next' = M.next
    /\ prev' = M.prev
    /\ value' = M.value
    /\ mem' = M.mem
    /\ live' = M.live
    /\ vlive' = M.vlive
    /\ writes' = M.w
    /\ frees' = M.fr
    /\ uaf' = M.bad

\* A call that runs from its entry to its return in one step.
Leave(M) == Store(M) /\ UNCHANGED <<pc, loc>>

q_new ==
    /\ queue = NULL
    /\ \E fail \in BOOLEAN :
        LET r == q_new_fn(Memory, fail)
        IN  /\ Enter("q_new", [fail |-> fail])
            /\ Leave(r.M)
            /\ queue' = r.ret
            /\ ret' = r.ret
            /\ buf' = <<>>
            /\ UNCHANGED <<held, crashed>>

\* q_free(l) and l = NULL after it, as the caller has no queue any more.
q_free ==
    /\ Enter("q_free", NoArg)
    /\ Leave(q_free_fn(Memory, queue))
    /\ queue' = NULL
    /\ ret' = 0
    /\ buf' = <<>>
    /\ UNCHANGED <<held, crashed>>

\* Which of element_alloc's two requests the allocator refuses in a call.
AllocFails == {"none", "value", "elm"}

q_insert_head ==
    \E s \in CStrings, fail \in AllocFails :
        LET r == q_insert_head_fn(Memory, queue, s, fail = "value", fail = "elm")
        IN  /\ Enter("q_insert_head", [s |-> s, fail |-> fail])
            /\ Leave(r.M)
            /\ ret' = r.ret
            /\ buf' = <<>>
            /\ UNCHANGED <<queue, held, crashed>>

q_insert_tail ==
    \E s \in CStrings, fail \in AllocFails :
        LET r == q_insert_tail_fn(Memory, queue, s, fail = "value", fail = "elm")
        IN  /\ Enter("q_insert_tail", [s |-> s, fail |-> fail])
            /\ Leave(r.M)
            /\ ret' = r.ret
            /\ buf' = <<>>
            /\ UNCHANGED <<queue, held, crashed>>

\* The source indices a copy of bufsize - 1 bytes reads past the end of src
\* (none to tell apart when the copy cannot end).
Beyond(src, bufsize) == IF copy_overflows(bufsize) THEN {} ELSE (Len(src) + 1) .. copy_length(bufsize)

\* The (sp, bufsize) pairs callers pass: no buffer, or a buffer and its size.
RemoveArgs == {[sp |-> NULL, bufsize |-> 0]} \cup {[sp |-> SP, bufsize |-> b] : b \in 0 .. MaxBuf}

\* What a remove leaves.  A copy that leaves the stored string's buffer or the
\* caller's is undefined: the process may die in it (die), and does when the
\* copy is of SIZE_MAX bytes; otherwise the bytes read past the end are beyond.
Removed(r, copies, src, bufsize, die) ==
    /\ die => copies /\ (copy_overreads(src, bufsize) \/ copy_overflows(bufsize))
    /\ copies /\ copy_overflows(bufsize) => die
    /\ crashed' = die
    /\ IF die
       THEN /\ Leave(Memory)
            /\ ret' = NULL
            /\ buf' = <<>>
            /\ UNCHANGED held
       ELSE /\ Leave(r.M)
            /\ ret' = r.ret
            /\ buf' = r.buf
            /\ held' = held \cup ({r.ret} \ {NULL})
    /\ UNCHANGED queue

q_remove_head ==
    \E a \in RemoveArgs, die \in BOOLEAN :
        LET copies == queue # NULL /\ ~list_empty(Memory, queue) /\ a.sp # NULL
            src == IF copies THEN StrOf(Memory, next[queue]) ELSE <<>>
        IN  \E beyond \in [IF copies THEN Beyond(src, a.bufsize) ELSE {} -> Byte] :
                /\ held = {}
                /\ Enter("q_remove_head", a)
                /\ Removed(q_remove_head_fn(Memory, queue, a.sp, a.bufsize, beyond), copies, src, a.bufsize, die)

q_remove_tail ==
    \E a \in RemoveArgs, die \in BOOLEAN :
        LET copies == queue # NULL /\ ~list_empty(Memory, queue) /\ a.sp # NULL
            src == IF copies THEN StrOf(Memory, prev[queue]) ELSE <<>>
        IN  \E beyond \in [IF copies THEN Beyond(src, a.bufsize) ELSE {} -> Byte] :
                /\ held = {}
                /\ Enter("q_remove_tail", a)
                /\ Removed(q_remove_tail_fn(Memory, queue, a.sp, a.bufsize, beyond), copies, src, a.bufsize, die)

\* The caller releases the element a remove handed to it.
q_release ==
    \E e \in held :
        /\ Enter("q_release_element", [e |-> e])
        /\ Leave(q_release_element(Memory, e))
        /\ held' = held \ {e}
        /\ ret' = 0
        /\ buf' = <<>>
        /\ UNCHANGED <<queue, crashed>>

q_size ==
    /\ Enter("q_size", NoArg)
    /\ Leave(Memory)
    /\ ret' = q_size_fn(Memory, queue)
    /\ buf' = <<>>
    /\ UNCHANGED <<queue, held, crashed>>

q_delete_mid ==
    LET r == q_delete_mid_fn(Memory, queue)
    IN  /\ Enter("q_delete_mid", NoArg)
        /\ Leave(r.M)
        /\ ret' = r.ret
        /\ buf' = <<>>
        /\ UNCHANGED <<queue, held, crashed>>

q_delete_dup ==
    LET r == q_delete_dup_fn(Memory, queue)
    IN  /\ Enter("q_delete_dup", NoArg)
        /\ Leave(r.M)
        /\ ret' = r.ret
        /\ buf' = <<>>
        /\ UNCHANGED <<queue, held, crashed>>

q_swap ==
    /\ Enter("q_swap", NoArg)
    /\ Leave(q_swap_fn(Memory, queue))
    /\ ret' = 0
    /\ buf' = <<>>
    /\ UNCHANGED <<queue, held, crashed>>

q_reverse ==
    /\ Enter("q_reverse", NoArg)
    /\ Leave(q_reverse_fn(Memory, queue))
    /\ ret' = 0
    /\ buf' = <<>>
    /\ UNCHANGED <<queue, held, crashed>>

q_sort ==
    /\ Enter("q_sort", NoArg)
    /\ Leave(q_sort_fn(Memory, queue))
    /\ ret' = 0
    /\ buf' = <<>>
    /\ UNCHANGED <<queue, held, crashed>>

\* ------------------------------------------------------- specifications
\* The memory before anything is allocated.
Blank == [next |-> [n \in Node |-> NULL], prev |-> [n \in Node |-> NULL], value |-> [e \in Elem |-> NULL], mem |-> [b \in VBuf |-> FREED], live |-> {}, vlive |-> {}, w |-> 0, fr |-> <<>>, bad |-> FALSE]

\* The state q_new leaves the process in, whether it got its block or not; the
\* driver goes on calling for ever.
Init ==
    \E fail \in BOOLEAN :
        LET r == q_new_fn(Blank, fail)
        IN  /\ queue = r.ret
            /\ next = r.M.next
            /\ prev = r.M.prev
            /\ value = r.M.value
            /\ mem = r.M.mem
            /\ live = r.M.live
            /\ vlive = r.M.vlive
            /\ held = {}
            /\ op = "q_new"
            /\ arg = [fail |-> fail]
            /\ ret = r.ret
            /\ buf = <<>>
            /\ writes = r.M.w
            /\ pre = [queue |-> NULL, next |-> Blank.next, prev |-> Blank.prev, value |-> Blank.value, mem |-> Blank.mem, live |-> {}, vlive |-> {}, held |-> {}]
            /\ twice = FALSE
            /\ fuel = Unlimited
            /\ crashed = FALSE
            /\ frees = <<>>
            /\ uaf = FALSE
            /\ pc = "idle"
            /\ loc = NoLoc

Next ==
    \/ q_new
    \/ q_free
    \/ q_insert_head
    \/ q_insert_tail
    \/ q_remove_head
    \/ q_remove_tail
    \/ q_release
    \/ q_size
    \/ q_delete_mid
    \/ q_delete_dup
    \/ q_swap
    \/ q_reverse
    \/ q_sort

Spec == Init /\ [][Next]_vars

\* The ring q_new and n calls of q_insert_tail build when no allocation fails:
\* elements 1 .. n in order, element i holding strs[i] in buffer i.
Ring(strs) ==
    LET n == Len(strs)
        after(x) == IF x = n THEN H ELSE x + 1
        before(x) == IF x = 0 THEN n ELSE x - 1
    IN  [next |-> [x \in Node |-> IF x <= n THEN after(x) ELSE NULL],
         prev |-> [x \in Node |-> IF x <= n THEN before(x) ELSE NULL],
         value |-> [e \in Elem |-> IF e <= n THEN e ELSE NULL],
         mem |-> [b \in VBuf |-> IF b <= n THEN strs[b] ELSE FREED],
         live |-> 0 .. n,
         vlive |-> 1 .. n,
         w |-> 0,
         fr |-> <<>>,
         bad |-> FALSE]

\* The algorithm driver: a ring of up to MaxLen elements, then MaxCalls calls
\* of the functions that work on the ring in place.
InitAlg ==
    \E n \in 0 .. MaxLen :
        \E strs \in [1 .. n -> AlgStrings] :
            LET M == Ring(strs)
            IN  /\ queue = H
                /\ next = M.next
                /\ prev = M.prev
                /\ value = M.value
                /\ mem = M.mem
                /\ live = M.live
                /\ vlive = M.vlive
                /\ held = {}
                /\ op = "q_insert_tail"
                /\ arg = [s |-> IF n = 0 THEN <<0>> ELSE strs[n], fail |-> "none"]
                /\ ret = 1
                /\ buf = <<>>
                /\ writes = 0
                /\ pre = [queue |-> H, next |-> M.next, prev |-> M.prev, value |-> M.value, mem |-> M.mem, live |-> M.live, vlive |-> M.vlive, held |-> {}]
                /\ twice = FALSE
                /\ fuel = MaxCalls
                /\ crashed = FALSE
                /\ frees = <<>>
                /\ uaf = FALSE
                /\ pc = "idle"
                /\ loc = NoLoc

NextAlg ==
    \/ q_delete_mid
    \/ q_delete_dup
    \/ q_swap
    \/ q_reverse
    \/ q_sort

SpecAlg == InitAlg /\ [][NextAlg]_vars

\* ------------------------------------------------ the loops, step by step
\* The functions that loop over the ring, one loop iteration per step: pc is
\* the loop the call is in and loc its local variables.  head is queue.

\* A call of the function name starts, leaves the memory M and goes on at p
\* with the locals l; r is what it has returned if p is "idle".
Begin(name, M, p, l, r) ==
    /\ pc = "idle"
    /\ Enter(name, NoArg)
    /\ Store(M)
    /\ pc' = p
    /\ loc' = l
    /\ ret' = r
    /\ buf' = <<>>
    /\ UNCHANGED <<queue, held, crashed>>

\* The running call has done one more step, which worked on the memory as M.
Resume(M, p, l, r) ==
    \E R \in {M} :
        /\ next' = R.next
        /\ prev' = R.prev
        /\ value' = R.value
        /\ mem' = R.mem
        /\ live' = R.live
        /\ vlive' = R.vlive
        /\ writes' = writes + R.w
        /\ frees' = frees \o R.fr
        /\ uaf' = (uaf \/ R.bad)
        /\ pc' = p
        /\ loc' = l
        /\ ret' = r
        /\ UNCHANGED <<queue, held, op, arg, buf, pre, twice, fuel, crashed>>

\* q_delete_mid up to its loop.
q_delete_mid_begin ==
    IF queue = NULL \/ list_empty(Memory, queue)
    THEN Begin("q_delete_mid", Memory, "idle", NoLoc, 0)
    ELSE Begin("q_delete_mid", Memory, "mid_walk", [NoLoc EXCEPT !.fast = next[queue], !.slow = next[queue]], ret)

\* q_delete_mid's test without fast->next != head: on a ring of odd length
\* fast steps over head and the walk goes round for ever.
mid_goes_on_past(M, head, fast) == fast # head

\* The test of q_delete_mid's while.
mid_goes_on(M, head, fast) == fast # head /\ M.next[fast] # head

\* One test of q_delete_mid's while and the body, or what follows the loop.
q_delete_mid_walk ==
    /\ pc = "mid_walk"
    /\ IF mid_goes_on(Memory, queue, loc.fast)
       THEN Resume(Memory, "mid_walk", [loc EXCEPT !.slow = next[loc.slow], !.fast = next[next[loc.fast]]], ret)
       ELSE Resume(q_release_element(list_del(Memory, loc.slow), loc.slow), "idle", NoLoc, 1)

\* q_delete_dup up to its loop.
q_delete_dup_begin ==
    IF queue = NULL THEN Begin("q_delete_dup", Memory, "idle", NoLoc, 0)
    ELSE IF list_empty(Memory, queue) \/ list_is_singular(Memory, queue) THEN Begin("q_delete_dup", Memory, "idle", NoLoc, 1)
    ELSE Begin("q_delete_dup", Memory, "dup_walk", [NoLoc EXCEPT !.elm = next[queue], !.safe = next[next[queue]]], ret)

\* One test of list_for_each_entry_safe in q_delete_dup and the body.
q_delete_dup_walk ==
    /\ pc = "dup_walk"
    /\ IF loc.elm = queue THEN Resume(Memory, "idle", NoLoc, 1)
       ELSE \E cmp_result \in {dup_cmp(Memory, queue, loc.elm, loc.safe)} :
            \E hit \in {dup_hit(cmp_result, loc.found)} :
            \E M0 \in {dup_reads(Memory, queue, loc.elm, loc.safe)} :
            \E M1 \in {Touch(IF hit THEN q_release_element(list_del(M0, loc.elm), loc.elm) ELSE M0, loc.safe)} :
                Resume(M1, "dup_walk", [loc EXCEPT !.elm = loc.safe, !.safe = M1.next[loc.safe], !.found = IF hit THEN cmp_result ELSE loc.found], ret)

\* q_swap up to its loop.
q_swap_begin ==
    IF queue = NULL \/ list_empty(Memory, queue) \/ list_is_singular(Memory, queue)
    THEN Begin("q_swap", Memory, "idle", NoLoc, 0)
    ELSE Begin("q_swap", Memory, "swap_walk", [NoLoc EXCEPT !.a = next[queue], !.b = next[next[queue]]], 0)

\* One body of q_swap's do-while and its test.
q_swap_walk ==
    /\ pc = "swap_walk"
    /\ \E M1 \in {swap_pair(Memory, loc.a, loc.b)} :
       LET a1 == M1.next[loc.a]
           b1 == M1.next[a1]
       IN  IF a1 # queue /\ b1 # queue
           THEN Resume(M1, "swap_walk", [loc EXCEPT !.a = a1, !.b = b1], ret)
           ELSE Resume(M1, "idle", NoLoc, ret)

\* q_reverse up to its loop.
q_reverse_begin ==
    IF queue = NULL \/ list_empty(Memory, queue) \/ list_is_singular(Memory, queue)
    THEN Begin("q_reverse", Memory, "idle", NoLoc, 0)
    ELSE Begin("q_reverse", Memory, "reverse_walk", [NoLoc EXCEPT !.a = next[queue], !.b = prev[queue]], 0)

\* One body of q_reverse's do-while and its test.
q_reverse_walk ==
    /\ pc = "reverse_walk"
    /\ \E M1 \in {IF next[loc.a] # loc.b THEN reverse_apart(Memory, loc.a, loc.b) ELSE reverse_beside(Memory, loc.a, loc.b)} :
       LET a1 == M1.next[loc.b]
           b1 == M1.prev[loc.a]
       IN  IF reverse_goes_on(M1, a1, b1)
           THEN Resume(M1, "reverse_walk", [loc EXCEPT !.a = a1, !.b = b1], ret)
           ELSE Resume(M1, "idle", NoLoc, ret)

\* q_sort up to its first loop: the ring is broken open behind its last node.
q_sort_begin ==
    IF queue = NULL \/ next[queue] = prev[queue]
    THEN Begin("q_sort", Memory, "idle", NoLoc, 0)
    ELSE Begin("q_sort", SetNext(Memory, prev[queue], NULL), "sort_intake", [NoLoc EXCEPT !.list = next[queue]], 0)

\* The end of the body of q_sort's do-while: list goes on top of pending, and
\* the test of the loop.
sort_push(M, l) ==
    LET M1 == SetPrev(M, l.list, l.pending)
        list1 == M1.next[l.list]
    IN  [M |-> SetNext(M1, l.list, NULL),
         loc |-> [l EXCEPT !.pending = l.list, !.list = list1, !.count = @ + 1],
         pc |-> IF list1 # NULL THEN "sort_intake" ELSE "sort_final_init"]

\* merge(newer, older) for merge(older, newer).
carry_pair_swapped(M, newer) == [a |-> newer, b |-> M.prev[newer]]

\* The arguments of the merge in the do-while: older = newer->prev, and
\* merge(older, newer).
carry_pair(M, newer) == [a |-> M.prev[newer], b |-> newer]

\* The start of the body of q_sort's do-while: the walk over count's low
\* bits, then either the call of merge(older, newer) or the rest of the body.
q_sort_intake ==
    /\ pc = "sort_intake"
    /\ \E F \in {sort_find(Memory, loc.pending, LOCAL_VAR, loc.count)} :
       LET newer == sort_deref(Memory, loc.pending, F.tail)
           A == carry_pair(Memory, newer)
           P == sort_push(Memory, loc)
       IN  IF F.bits # 0
           THEN Resume(Memory, "merge", [loc EXCEPT !.slot = F.tail, !.older = prev[newer], !.a = A.a, !.b = A.b, !.head = NULL, !.tail = LOCAL_VAR, !.back = "sort_carry"], ret)
           ELSE Resume(P.M, P.pc, P.loc, ret)

\* One pass of merge's for (;;); on the break merge returns loc.head to
\* loc.back.
merge_step ==
    /\ pc = "merge"
    /\ IF merge_takes_a(StrOf(Memory, loc.a), StrOf(Memory, loc.b))
       THEN \E S \in {merge_store(Memory, loc.head, loc.tail, loc.a)} :
            LET a1 == S.M.next[loc.a]
            IN  IF a1 = NULL
                THEN Resume(SetNext(S.M, loc.a, loc.b), loc.back, [loc EXCEPT !.head = S.head, !.tail = loc.a, !.a = a1], ret)
                ELSE Resume(S.M, "merge", [loc EXCEPT !.head = S.head, !.tail = loc.a, !.a = a1], ret)
       ELSE \E S \in {merge_store(Memory, loc.head, loc.tail, loc.b)} :
            LET b1 == S.M.next[loc.b]
            IN  IF b1 = NULL
                THEN Resume(SetNext(S.M, loc.b, loc.a), loc.back, [loc EXCEPT !.head = S.head, !.tail = loc.b, !.b = b1], ret)
                ELSE Resume(S.M, "merge", [loc EXCEPT !.head = S.head, !.tail = loc.b, !.b = b1], ret)

\* What follows merge in the body of the do-while: the merged run takes the
\* place of the two in pending, then list goes on top.
q_sort_carry ==
    /\ pc = "sort_carry"
    /\ LET newer == loc.head
           M1 == SetPrev(Memory, newer, prev[loc.older])
           M2 == IF loc.slot = LOCAL_VAR THEN M1 ELSE SetPrev(M1, loc.slot, newer)
           P == sort_push(M2, [loc EXCEPT !.pending = IF loc.slot = LOCAL_VAR THEN newer ELSE loc.pending])
       IN  Resume(P.M, P.pc, P.loc, ret)

\* list = pending; pending = list->prev; before the for (;;) of q_sort.
q_sort_final_init ==
    /\ pc = "sort_final_init"
    /\ Resume(Memory, "sort_final", [loc EXCEPT !.list = loc.pending, !.pending = prev[loc.pending]], ret)

\* One pass of the for (;;) of q_sort up to its call: of merge(pending, list),
\* or on the break of merge_restore(head, pending, list).
q_sort_final ==
    /\ pc = "sort_final"
    /\ IF prev[loc.pending] = NULL
       THEN Resume(Memory, "restore", [loc EXCEPT !.a = loc.pending, !.b = loc.list, !.tail = queue], ret)
       ELSE Resume(Memory, "merge", [loc EXCEPT !.older = prev[loc.pending], !.a = loc.pending, !.b = loc.list, !.head = NULL, !.tail = LOCAL_VAR, !.back = "sort_final_ret"], ret)

\* What follows merge in the for (;;): list = the merged run; pending = next.
q_sort_final_ret ==
    /\ pc = "sort_final_ret"
    /\ Resume(Memory, "sort_final", [loc EXCEPT !.list = loc.head, !.pending = loc.older], ret)

\* One pass of merge_restore's for (;;); on the break, tail->next = b.
merge_restore_step ==
    /\ pc = "restore"
    /\ IF restore_takes_a(StrOf(Memory, loc.a), StrOf(Memory, loc.b))
       THEN \E M1 \in {SetPrev(SetNext(Memory, loc.tail, loc.a), loc.a, loc.tail)} :
            LET a1 == M1.next[loc.a]
            IN  IF a1 = NULL
                THEN Resume(SetNext(M1, loc.a, loc.b), "restore_rest", [loc EXCEPT !.tail = loc.a, !.a = a1], ret)
                ELSE Resume(M1, "restore", [loc EXCEPT !.tail = loc.a, !.a = a1], ret)
       ELSE \E M1 \in {SetPrev(SetNext(Memory, loc.tail, loc.b), loc.b, loc.tail)} :
            LET b1 == M1.next[loc.b]
            IN  IF b1 = NULL
                THEN Resume(SetNext(M1, loc.b, loc.a), "restore_rest", [loc EXCEPT !.tail = loc.b, !.b = loc.a], ret)
                ELSE Resume(M1, "restore", [loc EXCEPT !.tail = loc.b, !.b = b1], ret)

\* One pass of merge_restore's do-while; when it ends the ring is closed and
\* q_sort returns.
merge_restore_rest ==
    /\ pc = "restore_rest"
    /\ \E M1 \in {SetPrev(Memory, loc.b, loc.tail)} :
       LET b1 == M1.next[loc.b]
       IN  IF b1 # NULL
           THEN Resume(M1, "restore_rest", [loc EXCEPT !.tail = loc.b, !.b = b1], ret)
           ELSE Resume(SetPrev(SetNext(M1, loc.b, queue), queue, loc.b), "idle", NoLoc, ret)

\* The step of the call that is running.
Step ==
    \/ q_delete_mid_walk
    \/ q_delete_dup_walk
    \/ q_swap_walk
    \/ q_reverse_walk
    \/ q_sort_intake
    \/ merge_step
    \/ q_sort_carry
    \/ q_sort_final_init
    \/ q_sort_final
    \/ q_sort_final_ret
    \/ merge_restore_step
    \/ merge_restore_rest

\* The step driver: a ring of up to MaxLen elements and one call.
InitRun ==
    \E n \in 0 .. MaxLen :
        \E strs \in [1 .. n -> AlgStrings] :
            LET M == Ring(strs)
            IN  /\ queue = H
                /\ next = M.next
                /\ prev = M.prev
                /\ value = M.value
                /\ mem = M.mem
                /\ live = M.live
                /\ vlive = M.vlive
                /\ held = {}
                /\ op = "q_insert_tail"
                /\ arg = [s |-> IF n = 0 THEN <<0>> ELSE strs[n], fail |-> "none"]
                /\ ret = 1
                /\ buf = <<>>
                /\ writes = 0
                /\ pre = [queue |-> H, next |-> M.next, prev |-> M.prev, value |-> M.value, mem |-> M.mem, live |-> M.live, vlive |-> M.vlive, held |-> {}]
                /\ twice = FALSE
                /\ fuel = 1
                /\ crashed = FALSE
                /\ frees = <<>>
                /\ uaf = FALSE
                /\ pc = "idle"
                /\ loc = NoLoc

NextRun ==
    \/ q_delete_mid_begin
    \/ q_delete_dup_begin
    \/ q_swap_begin
    \/ q_reverse_begin
    \/ q_sort_begin
    \/ Step

SpecRun == InitRun /\ [][NextRun]_vars

\* A call that is running takes its next step: the functions run in one
\* thread, nothing but the loop's own exit stops them.
SpecRunFair == SpecRun /\ WF_vars(Step)

\* ------------------------------------------------------------ the claims
\* The elements of the queue before and after the last call.
PreSeq == ListSeq(pre)

NowSeq == ListSeq(Memory)

\* The place of element x in the sequence s.
PosIn(s, x) == CHOOSE i \in 1 .. Len(s) : s[i] = x

\* C1: after any sequence of calls on a queue made by q_new, every node x
\* reachable from the sentinel, the sentinel included, has x.next.prev = x and
\* x.prev.next = x, and the sentinel is linked to itself exactly when the queue
\* holds no element (no element is allocated but the one the caller holds).
C1_RingLinked ==
    queue # NULL =>
        /\ \A x \in {H} \cup Range(NowSeq) :
            /\ next[x] \in Node
            /\ prev[x] \in Node
            /\ prev[next[x]] = x
            /\ next[prev[x]] = x
        /\ (next[H] = H /\ prev[H] = H) <=> (live \ ({H} \cup held) = {})

\* A q_sort that reordered a ring of three elements or more.
C1_Witness == op = "q_sort" /\ Len(NowSeq) >= 3 /\ NowSeq # PreSeq

\* C2: after q_sort the elements read from the sentinel along next are the
\* elements of the input, each with its string, in non-decreasing order of
\* strcmp, and elements with equal strings are in their input order.
C2_SortStable ==
    op = "q_sort" =>
        /\ Len(NowSeq) = Len(PreSeq)
        /\ Range(NowSeq) = Range(PreSeq)
        /\ \A e \in Range(PreSeq) : StrOf(Memory, e) = StrOf(pre, e)
        /\ \A i, j \in 1 .. Len(NowSeq) :
            i < j => /\ strcmp(StrOf(Memory, NowSeq[i]), StrOf(Memory, NowSeq[j])) <= 0
                     /\ strcmp(StrOf(Memory, NowSeq[i]), StrOf(Memory, NowSeq[j])) = 0
                            => PosIn(PreSeq, NowSeq[i]) < PosIn(PreSeq, NowSeq[j])

\* A q_sort of six elements or more that were not in order, some of them equal.
C2_Witness ==
    /\ op = "q_sort"
    /\ Len(PreSeq) >= 6
    /\ NowSeq # PreSeq
    /\ \E i, j \in 1 .. Len(NowSeq) : i < j /\ StrOf(Memory, NowSeq[i]) = StrOf(Memory, NowSeq[j])

\* The strings of the queue before and after the last call.
PreStrings == Strings(pre, PreSeq)

NowStrings == Strings(Memory, NowSeq)

\* C3: the queue behaves as a sequence of strings: a successful
\* q_insert_head puts its string in front, q_insert_tail at the end,
\* q_remove_head returns the first element and takes it out, q_remove_tail the
\* last, and q_size returns the length.
C3_RefinesSequence ==
    ~crashed =>
        /\ (op = "q_insert_head" /\ ret = 1) => (NowStrings = <<arg.s>> \o PreStrings /\ Tail(NowSeq) = PreSeq)
        /\ (op = "q_insert_tail" /\ ret = 1) => (NowStrings = PreStrings \o <<arg.s>> /\ SubSeq(NowSeq, 1, Len(PreSeq)) = PreSeq)
        /\ (op = "q_remove_head" /\ ret # NULL) =>
            /\ PreSeq = <<ret>> \o NowSeq
            /\ StrOf(Memory, ret) = PreStrings[1]
            /\ NowStrings = Tail(PreStrings)
        /\ (op = "q_remove_tail" /\ ret # NULL) =>
            /\ PreSeq = NowSeq \o <<ret>>
            /\ StrOf(Memory, ret) = PreStrings[Len(PreSeq)]
            /\ NowStrings = SubSeq(PreStrings, 1, Len(PreSeq) - 1)
        /\ op = "q_size" => ret = Len(NowSeq)

\* q_remove_head took "aa" out of a queue that held nothing else and copied
\* it into a buffer of four bytes.
C3_Witness ==
    /\ op = "q_remove_head"
    /\ ~crashed
    /\ ret # NULL
    /\ PreSeq = <<ret>>
    /\ NowSeq = <<>>
    /\ StrOf(Memory, ret) = <<1, 1, 0>>
    /\ buf = <<1, 1, 0, 0>>

\* C4: after q_reverse on two elements or more every node of the ring, the
\* sentinel included, has the next it had as prev and the prev it had as
\* next, so the elements read along next are the input in reverse.
C4_ReverseExchanges ==
    (op = "q_reverse" /\ Len(PreSeq) >= 2) =>
        /\ \A x \in {H} \cup Range(PreSeq) : next[x] = pre.prev[x] /\ prev[x] = pre.next[x]
        /\ NowSeq = Reverse(PreSeq)

\* A q_reverse of six elements or more.
C4_Witness == op = "q_reverse" /\ Len(PreSeq) >= 6 /\ NowSeq # PreSeq

\* The strings of the sequence s of elements are in ascending order.
Ascending(M, s) == \A i \in 1 .. Len(s) - 1 : strcmp(StrOf(M, s[i]), StrOf(M, s[i + 1])) <= 0

\* The string of element e is the string of no other element of s.
OccursOnce(M, s, e) == Cardinality({i \in 1 .. Len(s) : StrOf(M, s[i]) = StrOf(M, e)}) = 1

\* The elements of the input whose string occurs once, in their order.
PreOnce == SelectSeq(PreSeq, LAMBDA e : OccursOnce(pre, PreSeq, e))

\* C5: after q_delete_dup on a queue in ascending order the elements left are
\* the elements whose string occurred once in the input, in their order.
C5_DupKeepsSingles ==
    (op = "q_delete_dup" /\ Ascending(pre, PreSeq)) =>
        /\ NowSeq = PreOnce
        /\ \A e \in Range(NowSeq) : StrOf(Memory, e) = StrOf(pre, e)

\* A q_delete_dup of five sorted elements or more that begin and end with a
\* run of equal strings and have a single one between.
C5_Witness ==
    /\ op = "q_delete_dup"
    /\ Ascending(pre, PreSeq)
    /\ Len(PreSeq) >= 5
    /\ PreStrings[1] = PreStrings[2]
    /\ PreStrings[Len(PreSeq) - 1] = PreStrings[Len(PreSeq)]
    /\ NowSeq # <<>>

\* The sequence s without its element at place k.
Without(s, k) == [i \in 1 .. Len(s) - 1 |-> IF i < k THEN s[i] ELSE s[i + 1]]

\* C6: q_delete_mid on n >= 1 elements returns true and takes out the element
\* at index n / 2 counted from 0, leaving the others in their order.
C6_DeleteMid ==
    (op = "q_delete_mid" /\ Len(PreSeq) >= 1) =>
        /\ ret = 1
        /\ NowSeq = Without(PreSeq, (Len(PreSeq) \div 2) + 1)

\* A q_delete_mid of six elements that took out the one at index 3.
C6_Witness ==
    /\ op = "q_delete_mid"
    /\ Len(PreSeq) = 6
    /\ NowSeq = <<PreSeq[1], PreSeq[2], PreSeq[3], PreSeq[5], PreSeq[6]>>

\* C7: after q_swap on n >= 2 elements the elements that were at indices 2k
\* and 2k+1 (from 0) have changed places for every 2k+1 < n, and with n odd
\* the last element is where it was.
C7_SwapPairs ==
    (op = "q_swap" /\ Len(PreSeq) >= 2) =>
        /\ Len(NowSeq) = Len(PreSeq)
        /\ \A k \in 0 .. Len(PreSeq) :
            2 * k + 1 < Len(PreSeq) => (NowSeq[2 * k + 1] = PreSeq[2 * k + 2] /\ NowSeq[2 * k + 2] = PreSeq[2 * k + 1])
        /\ Len(PreSeq) % 2 = 1 => NowSeq[Len(PreSeq)] = PreSeq[Len(PreSeq)]

\* A q_swap of five elements.
C7_Witness == op = "q_swap" /\ Len(PreSeq) = 5 /\ NowSeq # PreSeq

\* C8: q_reverse called twice in a row leaves every next and prev field as it
\* was before the first call (pre, in the state between the two calls).
C8_ReverseTwice ==
    [][(op = "q_reverse" /\ op' = "q_reverse") => (next' = pre.next /\ prev' = pre.prev)]_vars

\* Two calls of q_reverse in a row on five elements or more.
C8_Witness == op = "q_reverse" /\ twice /\ Len(NowSeq) >= 5 /\ NowSeq # PreSeq

\* C9: the element a remove returned is out of the ring and stays allocated
\* with its string and its fields as they were, whatever is called on the
\* queue, until the caller releases it.
C9_RemoveOnlyUnlinks ==
    /\ (op \in {"q_remove_head", "q_remove_tail"} /\ ~crashed /\ ret # NULL) => held = {ret}
    /\ \A e \in held :
        /\ e \in live
        /\ value[e] \in vlive
        /\ e \notin Range(NowSeq)
        /\ e \notin Range(ListSeqBack(Memory))
        /\ value[e] = pre.value[e]
        /\ mem[value[e]] = pre.mem[value[e]]
        /\ next[e] = pre.next[e]
        /\ prev[e] = pre.prev[e]

\* A q_sort that reordered the ring while the caller held a removed element.
C9_Witness == held # {} /\ op = "q_sort" /\ NowSeq # PreSeq

\* C10: a q_insert_head or q_insert_tail in which an allocation fails returns
\* false and leaves every link field, every string and the set of allocated
\* blocks as they were.
C10_FailedInsert ==
    (op \in {"q_insert_head", "q_insert_tail"} /\ pre.queue # NULL /\ (arg.fail # "none" \/ ret = 0)) =>
        /\ ret = 0
        /\ next = pre.next
        /\ prev = pre.prev
        /\ value = pre.value
        /\ mem = pre.mem
        /\ live = pre.live
        /\ vlive = pre.vlive
        /\ q_size_fn(Memory, queue) = q_size_fn(pre, pre.queue)

\* A q_insert_tail on a queue with an element in which the buffer was
\* allocated and the record was refused.
C10_Witness ==
    /\ op = "q_insert_tail"
    /\ arg.fail = "elm"
    /\ pre.queue # NULL
    /\ Len(PreSeq) >= 1
    /\ pre.vlive # 1 .. HeapCap

\* The last call left every field, every string and the allocated blocks as
\* they were.
Untouched ==
    /\ next = pre.next
    /\ prev = pre.prev
    /\ value = pre.value
    /\ mem = pre.mem
    /\ live = pre.live
    /\ vlive = pre.vlive

\* C11: a call that returns signals failure exactly when the documentation
\* says so and then has changed nothing: q_delete_mid returns false iff there
\* is no queue or no element, q_delete_dup iff there is no queue, the removes
\* return NULL iff there is no queue or no element, the inserts return false
\* and q_size returns 0 when there is no queue.
C11_FailureSignals ==
    ~crashed =>
        /\ op = "q_delete_mid" => /\ ret = 0 <=> (pre.queue = NULL \/ PreSeq = <<>>)
                                  /\ ret = 0 => Untouched
        /\ op = "q_delete_dup" => /\ ret = 0 <=> pre.queue = NULL
                                  /\ ret = 0 => Untouched
        /\ op \in {"q_remove_head", "q_remove_tail"} =>
            /\ ret = NULL <=> (pre.queue = NULL \/ PreSeq = <<>>)
            /\ ret = NULL => Untouched
        /\ (op \in {"q_insert_head", "q_insert_tail"} /\ pre.queue = NULL) => (ret = 0 /\ Untouched)
        /\ (op = "q_size" /\ pre.queue = NULL) => ret = 0

\* q_delete_dup returned true on a queue of one element while q_free had not
\* been called and the caller held nothing.
C11_Witness == op = "q_delete_dup" /\ ret = 1 /\ Len(PreSeq) = 1 /\ Untouched

\* C12: q_swap, q_reverse, q_sort and q_delete_dup change no next or prev
\* field and no element when there is no queue, no element or one element;
\* q_delete_mid changes none when there is no queue or no element.
C12_NoOpOnSmall ==
    /\ (op \in {"q_swap", "q_reverse", "q_sort", "q_delete_dup"} /\ (pre.queue = NULL \/ Len(PreSeq) <= 1)) => Untouched
    /\ (op = "q_delete_mid" /\ (pre.queue = NULL \/ PreSeq = <<>>)) => Untouched

\* A q_sort of a queue of one element.
C12_Witness == op = "q_sort" /\ pre.queue # NULL /\ Len(PreSeq) = 1 /\ NowSeq = PreSeq

\* C13: q_swap, q_reverse and q_sort move links only: the elements in the ring
\* are the elements that were in it, no block is allocated or freed, every
\* element has the buffer and the string it had, and the sentinel is the same.
C13_LinksOnly ==
    op \in {"q_swap", "q_reverse", "q_sort"} =>
        /\ Len(NowSeq) = Len(PreSeq)
        /\ Range(NowSeq) = Range(PreSeq)
        /\ NowSeq = Reverse(ListSeqBack(Memory))
        /\ live = pre.live
        /\ vlive = pre.vlive
        /\ value = pre.value
        /\ mem = pre.mem
        /\ queue = pre.queue

\* A q_sort of six elements that brought the last one to the front.
C13_Witness == op = "q_sort" /\ Len(PreSeq) = 6 /\ NowSeq[1] = PreSeq[6]

\* The element the last remove took, or had to take, out of the ring.
Taken == IF op = "q_remove_head" THEN PreSeq[1] ELSE PreSeq[Len(PreSeq)]

\* C14: a q_remove_head or q_remove_tail with a buffer of arg.bufsize bytes
\* returns, reads no byte past the end of the stored string's buffer, writes
\* no byte past the end of the caller's, and leaves in it the first
\* min(len, bufsize - 1) bytes of the string and a terminator after them.
C14_CopyWithinBounds ==
    (op \in {"q_remove_head", "q_remove_tail"} /\ arg.sp # NULL /\ pre.queue # NULL /\ PreSeq # <<>>) =>
        LET src == StrOf(pre, Taken)
            k == Min(strlen(src), arg.bufsize - 1)
        IN  /\ ~crashed
            /\ ~copy_overflows(arg.bufsize)
            /\ ~copy_overreads(src, arg.bufsize)
            /\ Len(buf) = arg.bufsize
            /\ \A i \in 1 .. k : buf[i] = src[i]
            /\ buf[k + 1] = 0

\* The list_head and element_t blocks the last call freed, in order, and the
\* string buffers.
FreedNodes == LET s == SelectSeq(frees, LAMBDA f : f[1] = "n") IN [i \in 1 .. Len(s) |-> s[i][2]]

FreedBufs == LET s == SelectSeq(frees, LAMBDA f : f[1] = "v") IN [i \in 1 .. Len(s) |-> s[i][2]]

\* C15: q_free frees each element of the ring once, in ring order, with its
\* string buffer, and the sentinel last; it frees nothing else, so an element
\* the caller holds stays allocated with its string; without a queue it does
\* nothing.
C15_FreeReleasesRing ==
    op = "q_free" =>
        /\ ~uaf
        /\ pre.queue = NULL => (Untouched /\ frees = <<>>)
        /\ pre.queue # NULL =>
            /\ FreedNodes = PreSeq \o <<H>>
            /\ FreedBufs = [i \in 1 .. Len(PreSeq) |-> pre.value[PreSeq[i]]]
            /\ live = pre.live \ (Range(PreSeq) \cup {H})
            /\ vlive = pre.vlive \ Range(FreedBufs)
        /\ \A e \in held :
            /\ e \in live
            /\ e \notin Range(FreedNodes)
            /\ value[e] = pre.value[e]
            /\ value[e] \in vlive
            /\ mem[value[e]] = pre.mem[value[e]]

\* A q_free of a ring of two elements while the caller held a third.
C15_Witness == op = "q_free" /\ Len(PreSeq) = 2 /\ held # {} /\ live = held

\* C18 as stated: q_reverse on n >= 2 elements writes 2 * (n + 1) link fields.
C18_ReverseWritesTwicePerNode ==
    (op = "q_reverse" /\ Len(PreSeq) >= 2) => writes = 2 * (Len(PreSeq) + 1)

\* C18 as amended: q_reverse on n >= 2 elements writes eight link fields for
\* every pair it exchanges that is not adjacent and six for the adjacent pair
\* an even ring ends with: 4n - 2 writes for even n, 4n - 4 for odd n.
C18_ReverseWriteCount ==
    (op = "q_reverse" /\ Len(PreSeq) >= 2) =>
        writes = IF Len(PreSeq) % 2 = 0 THEN 4 * Len(PreSeq) - 2 ELSE 4 * Len(PreSeq) - 4

\* A q_reverse of six elements, which took 22 writes where 2 * (n + 1) is 14.
C18_Witness == op = "q_reverse" /\ Len(PreSeq) = 6 /\ writes = 22 /\ NowSeq = Reverse(PreSeq)

\* The element at place i of the input has a neighbour in the ring with the
\* same string: it is in a run of two or more adjacent equal strings.
InRun(i) ==
    \/ i > 1 /\ PreStrings[i - 1] = PreStrings[i]
    \/ i < Len(PreSeq) /\ PreStrings[i + 1] = PreStrings[i]

\* The elements of the input that are in no such run, in their order.
PreOutsideRuns == SelectSeq(PreSeq, LAMBDA e : ~InRun(PosIn(PreSeq, e)))

\* C19: q_delete_dup takes out the elements that are in a run of two or more
\* adjacent equal strings and no other, whether the queue is sorted or not: a
\* string that occurs again further on, not next to itself, stays.
C19_DupDeletesRuns ==
    op = "q_delete_dup" =>
        /\ NowSeq = PreOutsideRuns
        /\ \A e \in Range(NowSeq) : StrOf(Memory, e) = StrOf(pre, e)
        /\ live = pre.live \ (Range(PreSeq) \ Range(NowSeq))

\* A q_delete_dup of a queue that is not sorted: a run went, and two elements
\* with the same string, not adjacent, stayed.
C19_Witness ==
    /\ op = "q_delete_dup"
    /\ ~Ascending(pre, PreSeq)
    /\ Len(NowSeq) < Len(PreSeq)
    /\ \E i, j \in 1 .. Len(NowSeq) : i + 1 < j /\ NowStrings[i] = NowStrings[j]

\* No address occurs twice in the sequence s.
NoRepeat(s) == \A i, j \in 1 .. Len(s) : s[i] = s[j] => i = j

\* C20: no call frees a block twice or a block that is not allocated, and
\* none reads or writes an element that was released (uaf records both);
\* q_delete_mid and q_delete_dup free an element only when no node points to
\* it any more; the nodes left in the ring are allocated, with their strings.
C20_NoUseAfterRelease ==
    /\ ~uaf
    /\ NoRepeat(FreedNodes)
    /\ NoRepeat(FreedBufs)
    /\ Range(FreedNodes) \cap live = {}
    /\ Range(FreedBufs) \cap vlive = {}
    /\ op \in {"q_delete_mid", "q_delete_dup"} =>
        \A i \in 1 .. Len(frees) : frees[i][1] = "n" => ~frees[i][3]
    /\ queue # NULL =>
        /\ H \in live
        /\ \A e \in Range(NowSeq) : e \in live /\ value[e] \in vlive /\ mem[value[e]] # FREED

\* A q_delete_dup that released a run of two elements and kept a third, which
\* it had compared with the second of the run.
C20_Witness ==
    /\ op = "q_delete_dup"
    /\ Len(FreedNodes) = 2
    /\ Len(NowSeq) = 1
    /\ FreedNodes = SubSeq(PreSeq, 1, 2)

\* The run that starts at node h: the nodes along next up to NULL.
RunAt(h) == Walk(next, h, Cardinality(Node))

\* The heads of the runs in pending, the newest first: along prev up to NULL.
PendingRuns == Walk(prev, loc.pending, Cardinality(Node))

\* The strings of the sequence s of elements are in ascending order of strcmp.
RunSorted(s) == \A i \in 1 .. Len(s) - 1 : strcmp(StrOf(Memory, s[i]), StrOf(Memory, s[i + 1])) <= 0

PowerOfTwo(k) == \E i \in 0 .. k : 2 ^ i = k

\* C16: at every turn of q_sort's intake loop the runs in pending are sorted,
\* each of a length that is a power of two, and hold together the first count
\* elements of the input; a merge the loop calls is of two runs of equal
\* length that lie next to each other in pending, and its first argument is
\* the older one, whose elements all came before those of the second.
C16_PendingRuns ==
    /\ (op = "q_sort" /\ pc \in {"sort_intake", "sort_final_init"}) =>
        /\ \A h \in Range(PendingRuns) : RunSorted(RunAt(h)) /\ PowerOfTwo(Len(RunAt(h)))
        /\ \A g, h \in Range(PendingRuns) : g # h => Range(RunAt(g)) \cap Range(RunAt(h)) = {}
        /\ UNION {Range(RunAt(h)) : h \in Range(PendingRuns)} = Range(SubSeq(PreSeq, 1, loc.count))
        /\ Cardinality(UNION {Range(RunAt(h)) : h \in Range(PendingRuns)}) = loc.count
    /\ (op = "q_sort" /\ pc = "merge" /\ loc.back = "sort_carry" /\ loc.tail = LOCAL_VAR) =>
        /\ Len(RunAt(loc.a)) = Len(RunAt(loc.b))
        /\ loc.a = prev[loc.b]
        /\ loc.a \in Range(PendingRuns) /\ loc.b \in Range(PendingRuns)
        /\ \A x \in Range(RunAt(loc.a)), y \in Range(RunAt(loc.b)) : PosIn(PreSeq, x) < PosIn(PreSeq, y)

\* The intake loop calls merge on two runs of two elements that are not on
\* top of pending, the sixth element of the input still to come.
C16_Witness ==
    /\ op = "q_sort"
    /\ pc = "merge"
    /\ loc.back = "sort_carry"
    /\ loc.tail = LOCAL_VAR
    /\ loc.slot # LOCAL_VAR
    /\ loc.count = 5
    /\ Len(RunAt(loc.a)) = 2

\* C17: every call of q_delete_mid, q_delete_dup, q_swap, q_reverse and
\* q_sort that has started returns, on every ring: each loop the call enters
\* reaches its exit.
C17_Terminates == (pc # "idle") ~> (pc = "idle")

\* A q_sort of six elements went through its three loops and both merges and
\* returned with the ring in another order.
C17_Witness ==
    /\ op = "q_sort"
    /\ pc = "idle"
    /\ fuel = 0
    /\ Len(PreSeq) = 6
    /\ NowSeq # PreSeq
    /\ writes > 2 * 6
====
